---------------------------- MODULE Spec2Model ----------------------------
(***************************************************************************)
(* Stock and price synchronisation of one vendor feed with two marketplace *)
(* channels: seller.py (Ozon, "Channel A") and market.py (Yandex Market,   *)
(* "Channel B").                                                           *)
(*                                                                         *)
(* Python strings are modelled as sequences of one-character strings, so   *)
(* that str(), int() and price_conversion() are computed and not assumed.  *)
(* A cell of the feed is a Python value that is either a str or an int     *)
(* (pandas.read_excel gives both): [t |-> "str", s |-> chars, n |-> 0] or  *)
(* [t |-> "int", s |-> << >>, n |-> number].                               *)
(***************************************************************************)
EXTENDS Integers, Sequences, FiniteSets, TLC

(***************************************************************************)
(* Bounds of the model.                                                    *)
(***************************************************************************)
MaxFeed == 2        \* rows of the vendor feed
MaxOffers == 2      \* length of the offer list handed to create_stocks on its own
MaxListed == 3      \* offers the channel lists in one run, over all campaigns
MaxListing == 4     \* length of a listing paged through on its own
MaxPage == 2        \* page size of a listing endpoint
MaxChunk == 2       \* chunk size handed to divide
MaxLst == 4         \* length of a list handed to divide on its own

(***************************************************************************)
(* Python values and the conversions the code applies to them.             *)
(***************************************************************************)
PyStrVal(chars) == [t |-> "str", s |-> chars, n |-> 0]
PyIntVal(k) == [t |-> "int", s |-> << >>, n |-> k]

Digits == <<"0", "1", "2", "3", "4", "5", "6", "7", "8", "9">>
DigitSet == {Digits[i] : i \in 1..10}
DigitVal(c) == (CHOOSE i \in 1..10 : Digits[i] = c) - 1

Range(seq) == {seq[i] : i \in 1..Len(seq)}

RECURSIVE NatChars(_)
NatChars(k) == IF k < 10 THEN <<Digits[k + 1]>>
               ELSE NatChars(k \div 10) \o <<Digits[(k % 10) + 1]>>

\* str(v): a str is itself, an int is its decimal rendering.
pyStr(v) == IF v.t = "str" THEN v.s
            ELSE IF v.n < 0 THEN <<"-">> \o NatChars(-v.n) ELSE NatChars(v.n)

RECURSIVE DigitsValue(_, _)
DigitsValue(chars, acc) ==
    IF chars = << >> THEN acc
    ELSE DigitsValue(Tail(chars), 10 * acc + DigitVal(Head(chars)))

\* int(v): an int is itself; a str parses as an optional sign and one or more
\* decimal digits, and anything else raises ValueError.  (The tokens of the
\* model hold no blanks and no underscores.)
pyInt(v) ==
    IF v.t = "int" THEN [raised |-> FALSE, n |-> v.n]
    ELSE LET signed == v.s # << >> /\ Head(v.s) \in {"-", "+"}
             body == IF signed THEN Tail(v.s) ELSE v.s
         IN  IF body # << >> /\ Range(body) \subseteq DigitSet
             THEN [raised |-> FALSE,
                   n |-> IF signed /\ Head(v.s) = "-"
                         THEN -DigitsValue(body, 0) ELSE DigitsValue(body, 0)]
             ELSE [raised |-> TRUE, n |-> 0]

\* v == "literal" for a Python value v: a str equals a str literal when the
\* characters agree; an int never equals a str.
pyEqStr(v, chars) == v.t = "str" /\ v.s = chars

\* Faulty variant of ListRemove: a remove that removes nothing.
ListRemoveNothing(lst, x) == lst

\* list.remove(x): drops the first occurrence of x.
ListRemove(lst, x) ==
    LET i == CHOOSE k \in 1..Len(lst) : lst[k] = x /\ \A j \in 1..(k - 1) : lst[j] # x
    IN  SubSeq(lst, 1, i - 1) \o SubSeq(lst, i + 1, Len(lst))

SeqsUpTo(S, k) == UNION {[1..m -> S] : m \in 0..k}

(***************************************************************************)
(* seller.create_stocks                                                    *)
(***************************************************************************)
\* The quantity of one matched feed row, seller.py lines 155-161.
seller_stock_of(watch) ==
    LET count == pyStr(watch.qty)
    IN  IF count = <<">", "1", "0">> THEN [raised |-> FALSE, n |-> 100]
        ELSE IF count = <<"1">> THEN [raised |-> FALSE, n |-> 0]
        ELSE pyInt(watch.qty)

RECURSIVE seller_stocks_loop(_, _, _, _)
seller_stocks_loop(watch_remnants, i, stocks, offer_ids) ==
    IF i > Len(watch_remnants)
    THEN [raised |-> FALSE, stocks |-> stocks, offer_ids |-> offer_ids]
    ELSE LET watch == watch_remnants[i]
             code == pyStr(watch.code)
         IN  IF code \in Range(offer_ids)
             THEN LET stock == seller_stock_of(watch)
                  IN  IF stock.raised
                      THEN [raised |-> TRUE, stocks |-> stocks, offer_ids |-> offer_ids]
                      ELSE seller_stocks_loop(watch_remnants, i + 1,
                               Append(stocks, [offer_id |-> code, stock |-> stock.n]),
                               ListRemove(offer_ids, code))
             ELSE seller_stocks_loop(watch_remnants, i + 1, stocks, offer_ids)

\* Faulty variant of seller_create_stocks: the second loop is missing.
seller_create_stocks_nofill(watch_remnants, offer_ids) ==
    seller_stocks_loop(watch_remnants, 1, << >>, offer_ids)

\* The whole call: the feed pass, then one zero record per id left in the
\* caller's list.  offer_ids in the result is the caller's list afterwards.
seller_create_stocks(watch_remnants, offer_ids) ==
    LET fed == seller_stocks_loop(watch_remnants, 1, << >>, offer_ids)
    IN  IF fed.raised THEN fed
        ELSE [raised |-> FALSE,
              stocks |-> fed.stocks \o
                         [j \in 1..Len(fed.offer_ids) |->
                             [offer_id |-> fed.offer_ids[j], stock |-> 0]],
              offer_ids |-> fed.offer_ids]

(***************************************************************************)
(* market.create_stocks                                                    *)
(***************************************************************************)
\* The quantity of one matched feed row, market.py lines 119-120: the raw
\* cell is compared with the literals, without str().
market_stock_of(watch) ==
    LET count == watch.qty
    IN  IF pyEqStr(count, <<">", "1", "0">>) THEN [raised |-> FALSE, n |-> 100]
        ELSE IF pyEqStr(count, <<"1">>) THEN [raised |-> FALSE, n |-> 0]
        ELSE pyInt(count)

market_stock_record(sku, warehouse_id, count, date) ==
    [sku |-> sku, warehouseId |-> warehouse_id, count |-> count,
     type |-> "FIT", updatedAt |-> date]

RECURSIVE market_stocks_loop(_, _, _, _, _, _)
market_stocks_loop(watch_remnants, i, stocks, offer_ids, warehouse_id, date) ==
    IF i > Len(watch_remnants)
    THEN [raised |-> FALSE, stocks |-> stocks, offer_ids |-> offer_ids]
    ELSE LET watch == watch_remnants[i]
             code == pyStr(watch.code)
         IN  IF code \in Range(offer_ids)
             THEN LET stock == market_stock_of(watch)
                  IN  IF stock.raised
                      THEN [raised |-> TRUE, stocks |-> stocks, offer_ids |-> offer_ids]
                      ELSE market_stocks_loop(watch_remnants, i + 1,
                               Append(stocks,
                                   market_stock_record(code, warehouse_id, stock.n, date)),
                               ListRemove(offer_ids, code), warehouse_id, date)
             ELSE market_stocks_loop(watch_remnants, i + 1, stocks, offer_ids,
                                     warehouse_id, date)

market_create_stocks(watch_remnants, offer_ids, warehouse_id) ==
    LET date == "utcnow"
        fed == market_stocks_loop(watch_remnants, 1, << >>, offer_ids, warehouse_id, date)
    IN  IF fed.raised THEN fed
        ELSE [raised |-> FALSE,
              stocks |-> fed.stocks \o
                         [j \in 1..Len(fed.offer_ids) |->
                             market_stock_record(fed.offer_ids[j], warehouse_id, 0, date)],
              offer_ids |-> fed.offer_ids]


(***************************************************************************)
(* seller.price_conversion, seller.create_prices, seller.divide            *)
(***************************************************************************)
\* price.split(".")[0]: the characters before the first ".", all of them
\* when there is none.
RECURSIVE BeforeFirstDot(_)
BeforeFirstDot(chars) ==
    IF chars = << >> \/ Head(chars) = "." THEN << >>
    ELSE <<Head(chars)>> \o BeforeFirstDot(Tail(chars))

\* re.sub("[^0-9]", "", ...): only the decimal digits stay.
price_conversion(price) ==
    SelectSeq(BeforeFirstDot(price), LAMBDA c : c \in DigitSet)

seller_price_record(watch) ==
    [auto_action_enabled |-> "UNKNOWN", currency_code |-> "RUB",
     offer_id |-> pyStr(watch.code), old_price |-> <<"0">>,
     price |-> price_conversion(watch.price)]

seller_create_prices(watch_remnants, offer_ids) ==
    LET listed == SelectSeq(watch_remnants,
                            LAMBDA watch : pyStr(watch.code) \in Range(offer_ids))
    IN  [k \in 1..Len(listed) |-> seller_price_record(listed[k])]

\* Faulty variant of Slice: one element short, lst[i : i + n - 1].
SliceShort(lst, i, n) ==
    SubSeq(lst, i + 1, IF i + n - 1 < Len(lst) THEN i + n - 1 ELSE Len(lst))

\* lst[i : i + n] for a 0-based i: the slice stops at the end of the list.
Slice(lst, i, n) ==
    SubSeq(lst, i + 1, IF i + n < Len(lst) THEN i + n ELSE Len(lst))

\* for i in range(0, len(lst), n): yield lst[i : i + n]
RECURSIVE divide_from(_, _, _)
divide_from(lst, n, i) ==
    IF i >= Len(lst) THEN << >>
    ELSE <<Slice(lst, i, n)>> \o divide_from(lst, n, i + n)

\* list(divide(lst, n))
divide(lst, n) == divide_from(lst, n, 0)


(***************************************************************************)
(* State.                                                                  *)
(***************************************************************************)
VARIABLES
    \* one run of main() of seller.py or of market.py
    prog,            \* "seller" or "market": whose main() runs
    vendor,          \* the feed the vendor publishes
    catalog,         \* campaign -> the listing the channel serves, in order
    page_size,       \* "limit" of a listing request
    stock_chunk,     \* chunk size of the stock dispatch
    price_chunk,     \* chunk size of the price dispatch
    pc,              \* the statement main() is at
    camp,            \* index of the campaign of market.main's for loop
    watch_remnants,  \* main's local: the downloaded feed
    product_list,    \* get_offer_ids' local
    page,            \* get_offer_ids' local cursor: last_id or page token
    offer_ids,       \* main's local
    stocks,          \* main's local
    prices,          \* main's local
    todo,            \* the chunks the running for loop has still to submit
    log,             \* every request made, in order
    outcome,         \* "running", "completed", "caught" or "raised"
    \* create_stocks applied on its own
    cs_feed, cs_offers, cs_seller, cs_market,
    \* divide and a dispatch loop applied on their own
    dv_lst, dv_n, dv_chunks, dv_todo, dv_sent, dv_pc

mainVars == <<prog, vendor, catalog, page_size, stock_chunk, price_chunk, pc, camp,
              watch_remnants, product_list, page, offer_ids, stocks, prices, todo,
              log, outcome>>
csVars == <<cs_feed, cs_offers, cs_seller, cs_market>>
dvVars == <<dv_lst, dv_n, dv_chunks, dv_todo, dv_sent, dv_pc>>
vars == <<mainVars, csVars, dvVars>>

NoResult == [done |-> FALSE, raised |-> FALSE, stocks |-> << >>, offer_ids |-> << >>]

\* The variables of a part that a specification does not exercise.
MainIdle ==
    /\ prog = "seller" /\ vendor = << >> /\ catalog = [c \in 1..2 |-> << >>]
    /\ page_size = 1 /\ stock_chunk = 1 /\ price_chunk = 1
    /\ pc = "idle" /\ camp = 1 /\ watch_remnants = << >> /\ product_list = << >>
    /\ page = 0 /\ offer_ids = << >> /\ stocks = << >> /\ prices = << >>
    /\ todo = << >> /\ log = << >> /\ outcome = "running"
CsIdle ==
    /\ cs_feed = << >> /\ cs_offers = << >>
    /\ cs_seller = NoResult /\ cs_market = NoResult
DvIdle ==
    /\ dv_lst = << >> /\ dv_n = 1 /\ dv_chunks = << >> /\ dv_todo = << >>
    /\ dv_sent = << >> /\ dv_pc = "idle"

(***************************************************************************)
(* Inputs.                                                                 *)
(***************************************************************************)
IdA == <<"A">>
Id7 == <<"7">>
OfferIdSet == {IdA, Id7}

\* Cells of the code column: the int 7 and the str "7" are the same code after str().
CodeCells == {PyStrVal(IdA), PyStrVal(Id7), PyIntVal(7)}

\* Cells of the quantity column: the sentinel, digit strings, numeric cells,
\* a signed number and one token that is no number.
QtyCells == {PyStrVal(<<">", "1", "0">>), PyStrVal(<<"1">>), PyStrVal(<<"7">>),
             PyStrVal(<<"0">>), PyStrVal(<<"-", "3">>), PyStrVal(<<"x">>),
             PyIntVal(1), PyIntVal(7)}

\* Cells of the price column, "1'000.00 r." and "120 r" (r stands for the
\* currency word, which is outside ASCII).
Price1000 == <<"1", "'", "0", "0", "0", ".", "0", "0", " ", "r", ".">>
Price120 == <<"1", "2", "0", " ", "r">>

Row(code, qty, price) == [code |-> code, qty |-> qty, price |-> price]

(***************************************************************************)
(* StocksSpec: create_stocks of both files on every small feed and list.   *)
(***************************************************************************)
StocksRows == {Row(c, q, Price120) : c \in CodeCells, q \in QtyCells}

StocksInit ==
    /\ cs_feed \in SeqsUpTo(StocksRows, MaxFeed)
    /\ cs_offers \in SeqsUpTo(OfferIdSet, MaxOffers)
    /\ cs_seller = NoResult /\ cs_market = NoResult
    /\ MainIdle /\ DvIdle

SellerCreateStocksCall ==
    /\ ~cs_seller.done
    /\ cs_seller' = [done |-> TRUE] @@ seller_create_stocks(cs_feed, cs_offers)
    /\ UNCHANGED <<cs_feed, cs_offers, cs_market, mainVars, dvVars>>

MarketCreateStocksCall ==
    /\ ~cs_market.done
    /\ cs_market' = [done |-> TRUE] @@ market_create_stocks(cs_feed, cs_offers, "wh")
    /\ UNCHANGED <<cs_feed, cs_offers, cs_seller, mainVars, dvVars>>

StocksNext == SellerCreateStocksCall \/ MarketCreateStocksCall

StocksSpec == StocksInit /\ [][StocksNext]_vars

Distinct(seq) == \A i, j \in 1..Len(seq) : i # j => seq[i] # seq[j]
Count(seq, x) == Cardinality({i \in 1..Len(seq) : seq[i] = x})

SellerIds(recs) == [j \in 1..Len(recs) |-> recs[j].offer_id]
MarketIds(recs) == [j \in 1..Len(recs) |-> recs[j].sku]
Returned(res) == res.done /\ ~res.raised

ExactlyOnePerOffer(ids, offers) ==
    \A id \in Range(ids) \cup Range(offers) :
        Count(ids, id) = IF id \in Range(offers) THEN 1 ELSE 0

\* C1: for every list of distinct offer ids and every feed, the list that
\* create_stocks returns (in seller.py and in market.py) holds exactly one
\* record per offer id and no record for any other id.
C1_StockReconciliationComplete ==
    Distinct(cs_offers) =>
        /\ Returned(cs_seller) => ExactlyOnePerOffer(SellerIds(cs_seller.stocks), cs_offers)
        /\ Returned(cs_market) => ExactlyOnePerOffer(MarketIds(cs_market.stocks), cs_offers)

\* A feed that repeats a listed code, with another listed id it does not hold.
C1_Witness ==
    /\ Returned(cs_seller) /\ Returned(cs_market)
    /\ Distinct(cs_offers) /\ Len(cs_offers) = 2
    /\ Len(cs_feed) = 2
    /\ pyStr(cs_feed[1].code) = pyStr(cs_feed[2].code)
    /\ pyStr(cs_feed[1].code) \in Range(cs_offers)


\* The quantity cells the normalization is specified for: the sentinel, a
\* digit string, or a numeric cell that is not negative.
QtyInDomain(v) ==
    \/ v.t = "int" /\ v.n >= 0
    \/ v.t = "str" /\ v.s = <<">", "1", "0">>
    \/ v.t = "str" /\ v.s # << >> /\ Range(v.s) \subseteq DigitSet

QtyOneUnit(v) == (v.t = "int" /\ v.n = 1) \/ (v.t = "str" /\ v.s = <<"1">>)

\* What the specification asks of the normalization.
QtyExpected(v) ==
    IF v.t = "str" /\ v.s = <<">", "1", "0">> THEN 100
    ELSE IF QtyOneUnit(v) THEN 0
    ELSE IF v.t = "int" THEN v.n ELSE DigitsValue(v.s, 0)

\* Row i is the first row of the feed with its code.
FirstOfCode(feed, i) == \A k \in 1..(i - 1) : pyStr(feed[k].code) # pyStr(feed[i].code)
\* Row i is the last row of the feed with its code.
LastOfCode(feed, i) ==
    \A k \in (i + 1)..Len(feed) : pyStr(feed[k].code) # pyStr(feed[i].code)
RepeatedCode(feed, i) ==
    \E k \in 1..Len(feed) : k # i /\ pyStr(feed[k].code) = pyStr(feed[i].code)

SellerCountOf(recs, id, n) ==
    /\ \E j \in 1..Len(recs) : recs[j].offer_id = id
    /\ \A j \in 1..Len(recs) : recs[j].offer_id = id => recs[j].stock = n
MarketCountOf(recs, id, n) ==
    /\ \E j \in 1..Len(recs) : recs[j].sku = id
    /\ \A j \in 1..Len(recs) : recs[j].sku = id => recs[j].count = n

\* C6: for a feed whose quantities are sentinels or decimal-digit values,
\* both create_stocks return, every count is a non-negative integer, ">10"
\* gives 100, one unit gives 0, any other value gives its base-10 value, and
\* seller.py and market.py give the same count for the same feed row.
C6_QuantityNormalization ==
    (/\ cs_seller.done /\ cs_market.done /\ Distinct(cs_offers)
     /\ \A i \in 1..Len(cs_feed) : QtyInDomain(cs_feed[i].qty))
    => /\ ~cs_seller.raised /\ ~cs_market.raised
       /\ \A j \in 1..Len(cs_seller.stocks) : cs_seller.stocks[j].stock >= 0
       /\ \A j \in 1..Len(cs_market.stocks) : cs_market.stocks[j].count >= 0
       /\ \A i \in 1..Len(cs_feed) :
            (pyStr(cs_feed[i].code) \in Range(cs_offers) /\ FirstOfCode(cs_feed, i))
            => /\ SellerCountOf(cs_seller.stocks, pyStr(cs_feed[i].code),
                                QtyExpected(cs_feed[i].qty))
               /\ MarketCountOf(cs_market.stocks, pyStr(cs_feed[i].code),
                                QtyExpected(cs_feed[i].qty))

\* C10 as stated: when the feed repeats a code of the (duplicate-free) offer
\* list, create_stocks emits one record for it, whose count is the normalized
\* quantity of the last row with that code.
C10_LastOccurrenceWins ==
    Distinct(cs_offers) =>
      \A i \in 1..Len(cs_feed) :
        (/\ RepeatedCode(cs_feed, i) /\ LastOfCode(cs_feed, i)
         /\ pyStr(cs_feed[i].code) \in Range(cs_offers))
        => /\ (Returned(cs_seller) /\ ~seller_stock_of(cs_feed[i]).raised)
              => /\ Count(SellerIds(cs_seller.stocks), pyStr(cs_feed[i].code)) = 1
                 /\ SellerCountOf(cs_seller.stocks, pyStr(cs_feed[i].code),
                                  seller_stock_of(cs_feed[i]).n)
           /\ (Returned(cs_market) /\ ~market_stock_of(cs_feed[i]).raised)
              => /\ Count(MarketIds(cs_market.stocks), pyStr(cs_feed[i].code)) = 1
                 /\ MarketCountOf(cs_market.stocks, pyStr(cs_feed[i].code),
                                  market_stock_of(cs_feed[i]).n)

\* C10 as amended: when the feed repeats a code of the (duplicate-free) offer
\* list and create_stocks returns, it emits one record for that code, whose
\* count is the normalized quantity of the FIRST row with that code; the
\* later rows with that code are skipped.
C10_FirstOccurrenceWins ==
    Distinct(cs_offers) =>
      \A i \in 1..Len(cs_feed) :
        (/\ RepeatedCode(cs_feed, i) /\ FirstOfCode(cs_feed, i)
         /\ pyStr(cs_feed[i].code) \in Range(cs_offers))
        => /\ Returned(cs_seller)
              => /\ Count(SellerIds(cs_seller.stocks), pyStr(cs_feed[i].code)) = 1
                 /\ SellerCountOf(cs_seller.stocks, pyStr(cs_feed[i].code),
                                  seller_stock_of(cs_feed[i]).n)
           /\ Returned(cs_market)
              => /\ Count(MarketIds(cs_market.stocks), pyStr(cs_feed[i].code)) = 1
                 /\ MarketCountOf(cs_market.stocks, pyStr(cs_feed[i].code),
                                  market_stock_of(cs_feed[i]).n)

\* Two rows with one listed code and different quantities, both adapters done.
C10_Witness ==
    /\ Returned(cs_seller) /\ Returned(cs_market) /\ Distinct(cs_offers)
    /\ Len(cs_feed) = 2
    /\ pyStr(cs_feed[1].code) = pyStr(cs_feed[2].code)
    /\ cs_feed[1].code # cs_feed[2].code
    /\ pyStr(cs_feed[1].code) \in Range(cs_offers)
    /\ cs_feed[1].qty = PyStrVal(<<">", "1", "0">>)
    /\ cs_feed[2].qty = PyStrVal(<<"7">>)
    /\ SellerCountOf(cs_seller.stocks, Id7, 100)
    /\ MarketCountOf(cs_market.stocks, Id7, 100)


(***************************************************************************)
(* The channels' listing endpoints, as the code relies on them: the pages  *)
(* are consecutive slices of the channel's listing after the cursor sent.  *)
(* A cursor is the number of entries already served; 0 is the empty        *)
(* cursor "".                                                              *)
(***************************************************************************)
PageEnd(listing, limit, cursor) ==
    IF cursor + limit < Len(listing) THEN cursor + limit ELSE Len(listing)

\* seller.get_product_list: "items", "total" and "last_id" of result.
seller_get_product_list(listing, limit, last_id) ==
    LET end == PageEnd(listing, limit, last_id)
    IN  [items |-> [k \in 1..(end - last_id) |-> [offer_id |-> listing[last_id + k]]],
         total |-> Len(listing),
         last_id |-> end]

\* market.get_product_list: "offerMappingEntries" and paging.nextPageToken,
\* which is empty (0) on the last page.
market_get_product_list(listing, limit, page_token) ==
    LET end == PageEnd(listing, limit, page_token)
    IN  [offerMappingEntries |->
             [k \in 1..(end - page_token) |-> [offer |-> [shopSku |-> listing[page_token + k]]]],
         nextPageToken |-> IF end < Len(listing) THEN end ELSE 0]

\* Faulty variant of seller_listing_done: "<=" for "==", which leaves the
\* loop after the first page.
seller_listing_done_early(total, items_so_far) == Len(items_so_far) <= total

\* seller.get_offer_ids, line 61: if total == len(product_list): break
seller_listing_done(total, items_so_far) == total = Len(items_so_far)

\* market.get_offer_ids, line 100: if not page: break
market_listing_done(next_page_token) == next_page_token = 0

(***************************************************************************)
(* Spec: one run of seller.main or of market.main.                         *)
(***************************************************************************)
cfgVars == <<prog, vendor, catalog, page_size, stock_chunk, price_chunk>>

RowA == Row(PyStrVal(IdA), PyStrVal(<<">", "1", "0">>), Price1000)
Row7 == Row(PyIntVal(7), PyIntVal(1), Price120)
RowBad == Row(PyStrVal(IdA), PyStrVal(<<"x">>), Price120)
MainFeeds == {<< >>, <<RowA>>, <<RowA, Row7>>, <<RowBad>>}

Listings == SeqsUpTo(OfferIdSet, MaxListed)

\* The state when main enters its first request; reading the environment
\* (Env, env.str) is left out.
Init ==
    /\ prog \in {"seller", "market"}
    /\ vendor \in MainFeeds
    /\ catalog \in [1..2 -> Listings]
    /\ Len(catalog[1]) + Len(catalog[2]) <= MaxListed
    /\ prog = "seller" => catalog[2] = << >>
    /\ page_size \in 1..MaxPage
    /\ stock_chunk \in 1..MaxChunk
    /\ price_chunk \in 1..MaxChunk
    \* market.main never reaches a price dispatch, so its chunk size is unused
    /\ prog = "market" => price_chunk = 1
    /\ pc = IF prog = "seller" THEN "get_offer_ids" ELSE "download_stock"
    /\ camp = 1
    /\ watch_remnants = << >> /\ product_list = << >> /\ page = 0
    /\ offer_ids = << >> /\ stocks = << >> /\ prices = << >> /\ todo = << >>
    /\ log = << >> /\ outcome = "running"
    /\ CsIdle /\ DvIdle

Call(op, ok, batch) == [op |-> op, camp |-> camp, ok |-> ok, batch |-> batch]

\* Faulty variant of seller_main_except: the error is swallowed where it
\* happens and the run goes on.
seller_main_except_goes_on == pc' = pc /\ outcome' = outcome

\* seller.main, lines 274-279: every exception of the try block is caught
\* and printed, and main returns.
seller_main_except == pc' = "done" /\ outcome' = "caught"

\* market.main, lines 218-223: the same three handlers.
market_main_except == pc' = "done" /\ outcome' = "caught"

\* seller.main line 262: one turn of the loop of get_offer_ids.
SellerGetOfferIds ==
    /\ prog = "seller" /\ pc = "get_offer_ids"
    /\ \E ok \in BOOLEAN :
        /\ log' = Append(log, Call("get_product_list", ok, << >>))
        /\ IF ok
           THEN LET some_prod == seller_get_product_list(catalog[camp], page_size, page)
                    items_so_far == product_list \o some_prod.items
                IN  /\ product_list' = items_so_far
                    /\ page' = some_prod.last_id
                    /\ IF seller_listing_done(some_prod.total, items_so_far)
                       THEN /\ offer_ids' = [k \in 1..Len(items_so_far) |->
                                                items_so_far[k].offer_id]
                            /\ pc' = "download_stock"
                       ELSE UNCHANGED <<offer_ids, pc>>
                    /\ UNCHANGED outcome
           ELSE seller_main_except /\ UNCHANGED <<product_list, page, offer_ids>>
    /\ UNCHANGED <<cfgVars, camp, watch_remnants, stocks, prices, todo, csVars, dvVars>>

\* seller.main line 263, inside the try block.
SellerDownloadStock ==
    /\ prog = "seller" /\ pc = "download_stock"
    /\ \E ok \in BOOLEAN :
        /\ log' = Append(log, Call("download_stock", ok, << >>))
        /\ IF ok
           THEN watch_remnants' = vendor /\ pc' = "create_stocks" /\ UNCHANGED outcome
           ELSE seller_main_except /\ UNCHANGED watch_remnants
    /\ UNCHANGED <<cfgVars, camp, product_list, page, offer_ids, stocks, prices, todo,
                   csVars, dvVars>>

\* seller.main lines 266-267: create_stocks drains the caller's offer_ids;
\* then list(divide(stocks, n)) is built.
SellerCreateStocks ==
    /\ prog = "seller" /\ pc = "create_stocks"
    /\ LET r == seller_create_stocks(watch_remnants, offer_ids)
       IN  /\ offer_ids' = r.offer_ids
           /\ IF r.raised
              THEN seller_main_except /\ UNCHANGED <<stocks, todo>>
              ELSE /\ stocks' = r.stocks
                   /\ todo' = divide(r.stocks, stock_chunk)
                   /\ pc' = "update_stocks"
                   /\ UNCHANGED outcome
    /\ UNCHANGED <<cfgVars, camp, watch_remnants, product_list, page, prices, log,
                   csVars, dvVars>>

\* seller.main lines 267-268: one turn of the stock loop.
SellerUpdateStocks ==
    /\ prog = "seller" /\ pc = "update_stocks" /\ todo # << >>
    /\ \E ok \in BOOLEAN :
        /\ log' = Append(log, Call("update_stocks", ok, Head(todo)))
        /\ IF ok
           THEN todo' = Tail(todo) /\ UNCHANGED <<pc, outcome>>
           ELSE seller_main_except /\ UNCHANGED todo
    /\ UNCHANGED <<cfgVars, camp, watch_remnants, product_list, page, offer_ids, stocks,
                   prices, csVars, dvVars>>

\* seller.main lines 271-272, once the stock loop is through: create_prices
\* reads the offer_ids that create_stocks has drained.
SellerCreatePrices ==
    /\ prog = "seller" /\ pc = "update_stocks" /\ todo = << >>
    /\ prices' = seller_create_prices(watch_remnants, offer_ids)
    /\ todo' = divide(prices', price_chunk)
    /\ pc' = "update_price"
    /\ UNCHANGED <<cfgVars, camp, watch_remnants, product_list, page, offer_ids, stocks,
                   log, outcome, csVars, dvVars>>

\* seller.main lines 272-273: one turn of the price loop.
SellerUpdatePrice ==
    /\ prog = "seller" /\ pc = "update_price" /\ todo # << >>
    /\ \E ok \in BOOLEAN :
        /\ log' = Append(log, Call("update_price", ok, Head(todo)))
        /\ IF ok
           THEN todo' = Tail(todo) /\ UNCHANGED <<pc, outcome>>
           ELSE seller_main_except /\ UNCHANGED todo
    /\ UNCHANGED <<cfgVars, camp, watch_remnants, product_list, page, offer_ids, stocks,
                   prices, csVars, dvVars>>

\* seller.main falls off the end of the try block.
SellerReturn ==
    /\ prog = "seller" /\ pc = "update_price" /\ todo = << >>
    /\ pc' = "done" /\ outcome' = "completed"
    /\ UNCHANGED <<cfgVars, camp, watch_remnants, product_list, page, offer_ids, stocks,
                   prices, todo, log, csVars, dvVars>>

Warehouse(c) == IF c = 1 THEN "WAREHOUSE_FBS_ID" ELSE "WAREHOUSE_DBS_ID"

\* market.main line 210, before the try block: an exception leaves main.
MarketDownloadStock ==
    /\ prog = "market" /\ pc = "download_stock"
    /\ \E ok \in BOOLEAN :
        /\ log' = Append(log, Call("download_stock", ok, << >>))
        /\ IF ok
           THEN watch_remnants' = vendor /\ pc' = "get_offer_ids" /\ UNCHANGED outcome
           ELSE pc' = "done" /\ outcome' = "raised" /\ UNCHANGED watch_remnants
    /\ UNCHANGED <<cfgVars, camp, product_list, page, offer_ids, stocks, prices, todo,
                   csVars, dvVars>>

\* market.main line 213: one turn of the loop of get_offer_ids.
MarketGetOfferIds ==
    /\ prog = "market" /\ pc = "get_offer_ids"
    /\ \E ok \in BOOLEAN :
        /\ log' = Append(log, Call("get_product_list", ok, << >>))
        /\ IF ok
           THEN LET some_prod == market_get_product_list(catalog[camp], page_size, page)
                    items_so_far == product_list \o some_prod.offerMappingEntries
                IN  /\ product_list' = items_so_far
                    /\ page' = some_prod.nextPageToken
                    /\ IF market_listing_done(some_prod.nextPageToken)
                       THEN /\ offer_ids' = [k \in 1..Len(items_so_far) |->
                                                items_so_far[k].offer.shopSku]
                            /\ pc' = "create_stocks"
                       ELSE UNCHANGED <<offer_ids, pc>>
                    /\ UNCHANGED outcome
           ELSE market_main_except /\ UNCHANGED <<product_list, page, offer_ids>>
    /\ UNCHANGED <<cfgVars, camp, watch_remnants, stocks, prices, todo, csVars, dvVars>>

\* market.main lines 214-215.
MarketCreateStocks ==
    /\ prog = "market" /\ pc = "create_stocks"
    /\ LET r == market_create_stocks(watch_remnants, offer_ids, Warehouse(camp))
       IN  /\ offer_ids' = r.offer_ids
           /\ IF r.raised
              THEN market_main_except /\ UNCHANGED <<stocks, todo>>
              ELSE /\ stocks' = r.stocks
                   /\ todo' = divide(r.stocks, stock_chunk)
                   /\ pc' = "update_stocks"
                   /\ UNCHANGED outcome
    /\ UNCHANGED <<cfgVars, camp, watch_remnants, product_list, page, prices, log,
                   csVars, dvVars>>

\* market.main lines 215-216: one turn of the stock loop.
MarketUpdateStocks ==
    /\ prog = "market" /\ pc = "update_stocks" /\ todo # << >>
    /\ \E ok \in BOOLEAN :
        /\ log' = Append(log, Call("update_stocks", ok, Head(todo)))
        /\ IF ok
           THEN todo' = Tail(todo) /\ UNCHANGED <<pc, outcome>>
           ELSE market_main_except /\ UNCHANGED todo
    /\ UNCHANGED <<cfgVars, camp, watch_remnants, product_list, page, offer_ids, stocks,
                   prices, csVars, dvVars>>

\* market.main line 217: upload_prices is an "async def", and calling it
\* without await only builds a coroutine object that is dropped; its body
\* (listing, create_prices, update_price) never runs.  Then the for loop
\* takes the next campaign, with fresh locals in get_offer_ids, or ends.
MarketUploadPrices ==
    /\ prog = "market" /\ pc = "update_stocks" /\ todo = << >>
    /\ IF camp < 2
       THEN /\ camp' = camp + 1 /\ pc' = "get_offer_ids"
            /\ product_list' = << >> /\ page' = 0
            /\ UNCHANGED outcome
       ELSE /\ pc' = "done" /\ outcome' = "completed"
            /\ UNCHANGED <<camp, product_list, page>>
    /\ UNCHANGED <<cfgVars, watch_remnants, offer_ids, stocks, prices, todo, log,
                   csVars, dvVars>>

Next ==
    \/ SellerGetOfferIds \/ SellerDownloadStock \/ SellerCreateStocks
    \/ SellerUpdateStocks \/ SellerCreatePrices \/ SellerUpdatePrice \/ SellerReturn
    \/ MarketDownloadStock \/ MarketGetOfferIds \/ MarketCreateStocks
    \/ MarketUpdateStocks \/ MarketUploadPrices

Spec == Init /\ [][Next]_vars


(***************************************************************************)
(* Properties of a run.                                                    *)
(***************************************************************************)
Camps == IF prog = "seller" THEN {1} ELSE {1, 2}

CallsOf(op, c) == SelectSeq(log, LAMBDA e : e.op = op /\ e.camp = c)
Batches(calls) == [k \in 1..Len(calls) |-> calls[k].batch]

RECURSIVE Flatten(_)
Flatten(seqs) == IF seqs = << >> THEN << >> ELSE Head(seqs) \o Flatten(Tail(seqs))

IsSubmit(e) == e.op \in {"update_stocks", "update_price"}

\* get_offer_ids has just returned to main, and nothing has touched its result.
Listed ==
    \/ prog = "seller" /\ pc = "download_stock"
    \/ prog = "market" /\ pc = "create_stocks"

\* The offer ids of the price records a run has submitted for campaign c.
PriceIdsSubmitted(c) ==
    LET recs == Flatten(Batches(CallsOf("update_price", c)))
    IN  [k \in 1..Len(recs) |-> recs[k].offer_id]

\* The codes of the feed rows whose code campaign c lists, in feed order.
PriceIdsExpected(c) ==
    LET rows == SelectSeq(vendor, LAMBDA w : pyStr(w.code) \in Range(catalog[c]))
    IN  [k \in 1..Len(rows) |-> pyStr(rows[k].code)]

\* C2: a run that completes has submitted, for each channel with a
\* duplicate-free listing S, exactly one price record per feed row whose code
\* is in S: the price reconciliation sees all of S.
C2_PricesForEveryListedFeedRow ==
    outcome = "completed" =>
        \A c \in Camps :
            Distinct(catalog[c]) => PriceIdsSubmitted(c) = PriceIdsExpected(c)

\* C3: no listing request precedes the successful download of the feed, and
\* for each channel every stock batch comes after that channel's listing
\* requests and before its price batches.
C3_RunOrder ==
    /\ \A i \in 1..Len(log) :
          log[i].op = "get_product_list"
          => \E j \in 1..(i - 1) : log[j].op = "download_stock" /\ log[j].ok
    /\ \A i, j \in 1..Len(log) :
          (log[i].op = "update_stocks" /\ log[i].camp = log[j].camp)
          => /\ log[j].op = "get_product_list" => j < i
             /\ log[j].op = "update_price" => i < j

\* C5: when the submit call for chunk k of a collection fails, that call is
\* the last request of the run (no retry, no later chunk), the calls made for
\* that collection are its chunks 1..k in order, once each, the first k-1 of
\* them successful, and main has caught the error and returned.
C5_FailedChunkEndsRun ==
    \A i \in 1..Len(log) :
        (IsSubmit(log[i]) /\ ~log[i].ok)
        => /\ i = Len(log)
           /\ pc = "done" /\ outcome = "caught"
           /\ LET calls == CallsOf(log[i].op, log[i].camp)
                  chunks == IF log[i].op = "update_stocks"
                            THEN divide(stocks, stock_chunk)
                            ELSE divide(prices, price_chunk)
              IN  /\ Len(calls) <= Len(chunks)
                  /\ Batches(calls) = SubSeq(chunks, 1, Len(calls))
                  /\ \A k \in 1..(Len(calls) - 1) : calls[k].ok

\* The second of three stock chunks has failed.
C5_Witness ==
    /\ log # << >> /\ log[Len(log)].op = "update_stocks" /\ ~log[Len(log)].ok
    /\ Len(CallsOf("update_stocks", camp)) = 2
    /\ Len(divide(stocks, stock_chunk)) = 3
    /\ outcome = "caught"

\* C8: when download_stock fails the run ends as a hard failure, the error
\* leaving main, and no stock or price batch is submitted.
C8_FeedFailureIsFatal ==
    (\E i \in 1..Len(log) : log[i].op = "download_stock" /\ ~log[i].ok)
    => /\ outcome = "raised"
       /\ \A j \in 1..Len(log) : ~IsSubmit(log[j])

\* Offer id "id" is served on two different pages of the listing.
OnTwoPages(listing, id) ==
    \E i, j \in 1..Len(listing) :
        /\ listing[i] = id /\ listing[j] = id
        /\ (i - 1) \div page_size # (j - 1) \div page_size

StockIds == IF prog = "seller" THEN SellerIds(stocks) ELSE MarketIds(stocks)

\* C9: an offer id served on two pages is held once by the result of
\* get_offer_ids, and the stock records built from it hold it at most once.
C9_PaginationDuplicatesCollapse ==
    \A id \in OfferIdSet :
        OnTwoPages(catalog[camp], id)
        => /\ Listed => Count(offer_ids, id) = 1
           /\ pc = "update_stocks" => Count(StockIds, id) <= 1

(***************************************************************************)
(* ListSpec: get_offer_ids of both files on every small listing, with the  *)
(* loop taking its turns as long as it can.                                *)
(***************************************************************************)
ListInit ==
    /\ prog \in {"seller", "market"}
    /\ vendor = << >>
    /\ catalog \in [1..2 -> SeqsUpTo(OfferIdSet, MaxListing)]
    /\ catalog[2] = << >>
    /\ page_size \in 1..MaxPage
    /\ stock_chunk = 1 /\ price_chunk = 1
    /\ pc = "get_offer_ids" /\ camp = 1
    /\ watch_remnants = << >> /\ product_list = << >> /\ page = 0
    /\ offer_ids = << >> /\ stocks = << >> /\ prices = << >> /\ todo = << >>
    /\ log = << >> /\ outcome = "running"
    /\ CsIdle /\ DvIdle

ListNext == SellerGetOfferIds \/ MarketGetOfferIds

ListSpec == ListInit /\ [][ListNext]_vars /\ WF_vars(ListNext)

\* The page requests a listing of n entries takes with pages of p entries.
PagesNeeded(n, p) == IF n = 0 THEN 1 ELSE (n + p - 1) \div p

\* C7: from the empty cursor, get_offer_ids stops (it returns, unless a
\* request fails); when it returns it has made the finitely many page
\* requests the listing needs and holds every offer id of the listing.
C7_ListingTerminatesComplete ==
    /\ [](Listed => /\ offer_ids = catalog[camp]
                    /\ Len(log) = PagesNeeded(Len(catalog[camp]), page_size))
    /\ (pc = "get_offer_ids") ~> (Listed \/ outcome = "caught")

\* A listing of MaxListing pages of one entry has been returned in full.
C7_Witness ==
    /\ Listed /\ Len(catalog[camp]) = MaxListing /\ page_size = 1
    /\ Len(log) = MaxListing /\ offer_ids = catalog[camp]

(***************************************************************************)
(* DivideSpec: list(divide(lst, n)) and the loop that submits each chunk,  *)
(* on every small list and chunk size.                                     *)
(***************************************************************************)
DvItems == {"a", "b"}

DivideInit ==
    /\ dv_lst \in SeqsUpTo(DvItems, MaxLst)
    /\ dv_n \in 1..MaxChunk
    /\ dv_chunks = << >> /\ dv_todo = << >> /\ dv_sent = << >>
    /\ dv_pc = "divide"
    /\ MainIdle /\ CsIdle

\* for some in list(divide(lst, n)): the list of chunks is built first.
DvDivide ==
    /\ dv_pc = "divide"
    /\ dv_chunks' = divide(dv_lst, dv_n)
    /\ dv_todo' = dv_chunks'
    /\ dv_pc' = "loop"
    /\ UNCHANGED <<dv_lst, dv_n, dv_sent, mainVars, csVars>>

\* One turn of the loop: the submit function gets the next chunk.
DvSubmit ==
    /\ dv_pc = "loop" /\ dv_todo # << >>
    /\ dv_sent' = Append(dv_sent, Head(dv_todo))
    /\ dv_todo' = Tail(dv_todo)
    /\ UNCHANGED <<dv_lst, dv_n, dv_chunks, dv_pc, mainVars, csVars>>

\* The loop is through.
DvLoopEnd ==
    /\ dv_pc = "loop" /\ dv_todo = << >>
    /\ dv_pc' = "done"
    /\ UNCHANGED <<dv_lst, dv_n, dv_chunks, dv_todo, dv_sent, mainVars, csVars>>

DivideNext == DvDivide \/ DvSubmit \/ DvLoopEnd

DivideSpec == DivideInit /\ [][DivideNext]_vars

CeilDiv(a, b) == (a + b - 1) \div b

\* The sizes of the chunks of a list of 2050 records with n = 2000.
Sizes2050 ==
    LET chunks == divide([k \in 1..2050 |-> k], 2000)
    IN  [k \in 1..Len(chunks) |-> Len(chunks[k])]

\* C4: divide(L, n) yields ceil(len(L)/n) chunks, each non-empty and of at
\* most n elements, all but the last of exactly n, whose concatenation is L;
\* the loop submits each chunk once, in order (none for an empty L); 2050
\* records with n = 2000 give chunks of 2000 and 50.
C4_DividePartitions ==
    /\ dv_pc # "divide" =>
        /\ Len(dv_chunks) = CeilDiv(Len(dv_lst), dv_n)
        /\ \A k \in 1..Len(dv_chunks) :
              /\ Len(dv_chunks[k]) >= 1 /\ Len(dv_chunks[k]) <= dv_n
              /\ k < Len(dv_chunks) => Len(dv_chunks[k]) = dv_n
        /\ Flatten(dv_chunks) = dv_lst
        /\ Len(dv_sent) <= Len(dv_chunks)
        /\ dv_sent = SubSeq(dv_chunks, 1, Len(dv_sent))
        /\ dv_pc = "done" => dv_sent = dv_chunks
    /\ Sizes2050 = <<2000, 50>>

\* A list that does not divide evenly has been submitted, chunk by chunk.
C4_Witness ==
    /\ dv_pc = "done" /\ Len(dv_lst) = 3 /\ dv_n = 2
    /\ dv_sent = <<SubSeq(dv_lst, 1, 2), SubSeq(dv_lst, 3, 3)>>

=============================================================================
